---------------------------- MODULE Spec2Model ----------------------------
(***************************************************************************)
(* A model of the LC-3 virtual machine of src/src/vm.rs as main.rs drives  *)
(* it: Vm::new, Vm::read_image, then the fetch/decode/execute loop of      *)
(* Vm::run, one action per opcode handler and per trap handler.            *)
(*                                                                         *)
(* Representation.  Words are naturals below 2^16 and every u16 operation  *)
(* is computed modulo 2^16.  The Vec<u16> `memory` has MemSize cells; it   *)
(* is held sparsely as a function from the addresses of its non-zero cells *)
(* to their values (Cell gives the value of any cell).  The bytes written  *)
(* to stdout are held as a sequence in which a long stretch of zero bytes  *)
(* is one item, because PUTSP writes one byte per remaining memory cell.   *)
(***************************************************************************)
EXTENDS Integers, Sequences, FiniteSets, TLC

VARIABLES
    memory,     \* Vm.memory: non-zero cells only, address -> word
    pc,         \* Vm.pc
    reg,        \* Vm.reg: 0..7 -> word
    psr,        \* Vm.psr
    status,     \* where the process is: Constructed, Loaded, Running, Halted,
                \* LoadError (read_image returned Err), Panicked, Blocked
    fault,      \* why it is in LoadError / Panicked / Blocked
    stdin,      \* bytes the input device will still deliver, in order
    stdoutOk,   \* whether writes to and flushes of stdout succeed
    out,        \* what has been written to stdout
    flushes,    \* number of explicit stdout.flush() calls made
    executed,   \* number of iterations of the run loop completed
    loads,      \* number of read_image calls made
    inst,       \* run()'s local `inst`: the word last fetched (-1: none yet)
    at,         \* the address `inst` was fetched from
    sx          \* the last call of sign_ext: its arguments and its result

vars == <<memory, pc, reg, psr, status, fault, stdin, stdoutOk, out, flushes,
          executed, loads, inst, at, sx>>

----------------------------------------------------------------------------
(* Bounds of the model *)

MaxSteps == 4
MaxLoads == 2

----------------------------------------------------------------------------
(* Program constants *)

WordMod == 2 ^ 16
U16Max == 65535
MemSize == 65535
KBSR == 65024
KBDR == 65026
DSR == 65028
DDR == 65030
GETC == 32
OUT == 33
PUTS == 34
TRAP_IN == 35
PUTSP == 36
HALT == 37
FlagPos == 1
FlagZero == 2
FlagNeg == 4
OpBr == 0
OpAdd == 1
OpLd == 2
OpSt == 3
OpJsr == 4
OpAnd == 5
OpLdr == 6
OpStr == 7
OpRti == 8
OpNot == 9
OpLdi == 10
OpSti == 11
OpJmp == 12
OpReserved == 13
OpLea == 14
OpTrap == 15
MainPc == 12288
KbReady == 128

Word == 0 .. (WordMod - 1)
Byte == 0 .. 255

----------------------------------------------------------------------------
(* u16 arithmetic and bit operations *)

Pow2(n) == 2 ^ n

RECURSIVE BitAndN(_, _, _)
BitAndN(a, b, n) ==
    IF n = 0 \/ a = 0 \/ b = 0 THEN 0
    ELSE (IF a % 2 = 1 /\ b % 2 = 1 THEN 1 ELSE 0)
         + 2 * BitAndN(a \div 2, b \div 2, n - 1)

\* a & b on u16
BitAnd(a, b) == BitAndN(a, b, 16)

\* a | b on u16
BitOr(a, b) == a + b - BitAnd(a, b)

\* !a on u16
BitNot(a) == (WordMod - 1) - a

\* a >> n on u16
Shr(a, n) == a \div Pow2(n)

\* a << n on u16, n < 16: the bits shifted out are lost
Shl(a, n) == (a * Pow2(n)) % WordMod

\* u16::wrapping_add
wrapping_add(a, b) == (a + b) % WordMod

\* `x as u8`
AsU8(x) == x % 256

\* u16::from_be_bytes([hi, lo])
from_be_bytes(hi, lo) == hi * 256 + lo

\* u16::to_le_bytes(word) = [low byte, high byte]
to_le_bytes(w) == <<w % 256, w \div 256>>

sign_ext_bug(val, bits) ==
    LET v == BitAnd(val, Shl(1, bits) - 1)
    IN  IF BitAnd(Shr(v, bits - 1), 1) # 0
        THEN BitOr(v, Shl(255, bits))
        ELSE v

\* const fn sign_ext(mut val: u16, bits: u16) -> u16
sign_ext(val, bits) ==
    LET v == BitAnd(val, Shl(1, bits) - 1)
    IN  IF BitAnd(Shr(v, bits - 1), 1) # 0
        THEN BitOr(v, Shl(WordMod - 1, bits))
        ELSE v

\* no call of sign_ext yet
NoCall == [val |-> 0, bits |-> 0, res |-> -1]

\* the call sign_ext(val, bits) with the value it returns
SignExtCall(val, bits) == [val |-> val, bits |-> bits, res |-> sign_ext(val, bits)]

\* TryFrom<u16> for Opcode: Err for a value above Opcode::Trap, else the
\* variant with that discriminant
OpcodeTryFrom(val) == IF val > OpTrap THEN "Err" ELSE val

\* the opcode run() decodes from an instruction word: (inst >> 12).try_into()
Decode(w) == OpcodeTryFrom(Shr(w, 12))

set_cc_bug(regs, r) ==
    IF BitAnd(regs[r], Shl(1, 15)) # 0 THEN FlagNeg
    ELSE IF regs[r] = 0 THEN 0
    ELSE FlagPos

\* Vm::set_cc: the psr value for the content of register r
set_cc(regs, r) ==
    IF regs[r] = 0 THEN FlagZero
    ELSE IF BitAnd(regs[r], Shl(1, 15)) # 0 THEN FlagNeg
    ELSE FlagPos

----------------------------------------------------------------------------
(* Memory: Vec<u16> of MemSize cells, held sparsely *)

\* self.memory[a], for an index within the Vec
Cell(mem, a) == IF a \in DOMAIN mem THEN mem[a] ELSE 0

\* a store that keeps only the low byte of the value
Store_bug(mem, a, v) ==
    IF v % 256 = 0 THEN [x \in (DOMAIN mem) \ {a} |-> mem[x]]
    ELSE [x \in (DOMAIN mem) \cup {a} |-> IF x = a THEN v % 256 ELSE mem[x]]

\* self.memory[a] = v
Store(mem, a, v) ==
    IF v = 0 THEN [x \in (DOMAIN mem) \ {a} |-> mem[x]]
    ELSE [x \in (DOMAIN mem) \cup {a} |-> IF x = a THEN v ELSE mem[x]]

ZeroMem == [x \in {} |-> 0]

----------------------------------------------------------------------------
(* stdout: what has been written, in order.  An item is a byte, or the     *)
(* record [zeros |-> n] for the n bytes 0x00 that PUTSP writes for a        *)
(* stretch of n zero cells.                                                 *)

\* stdout.write(&[b])
WriteByte(o, b) == Append(o, b)

\* the bytes of sequence bs written one after the other
WriteBytes(o, bs) == o \o bs

\* n bytes 0x00 written one after the other
WriteZeros(o, n) == IF n = 0 THEN o ELSE Append(o, [zeros |-> n])

----------------------------------------------------------------------------
(* The input device: stdin, select(2) and read(2) *)

\* What the operating system answers during one instruction: sel, whether
\* select() on stdin returns Ok; rd, what read() does when stdin has no byte
\* left to deliver ("ok": it blocks for a key that never comes, "eof": it
\* returns Ok(0)) or that it fails whatever stdin holds ("err").  One
\* instruction calls select at most once and getch at most once.
IOChoices == [sel : BOOLEAN, rd : {"ok", "eof", "err"}]

\* fn is_ready_to_read() -> bool: select(...).is_ok(), whatever the fd set
\* select leaves behind
is_ready_to_read(io) == io.sel

\* fn getch() -> io::Result<u8>: loop until read() returns a byte; a read
\* error is returned; Ok(0) (end of input) is retried for ever
getch(io, sin) ==
    IF io.rd = "err" THEN [outcome |-> "err", byte |-> 0, stdin |-> sin]
    ELSE IF sin # <<>>
         THEN [outcome |-> "ok", byte |-> Head(sin), stdin |-> Tail(sin)]
         ELSE [outcome |-> "block", byte |-> 0, stdin |-> sin]

\* the result of a read that returned a value
ReadOk(v, sin) == [outcome |-> "ok", val |-> v, stdin |-> sin]

\* getch().unwrap_or_default() as u16, as a read result: a blocked getch never
\* returns
GetchOrDefault(io, sin) ==
    LET g == getch(io, sin)
    IN  IF g.outcome = "block"
        THEN [outcome |-> "block", val |-> 0, stdin |-> sin]
        ELSE ReadOk(g.byte, g.stdin)

\* Vm::read_mem: the device addresses first, then self.memory[addr], which
\* panics for an index that is not below the Vec's length
read_mem(mem, addr, io, sin) ==
    IF addr = KBSR
    THEN ReadOk(IF is_ready_to_read(io) THEN KbReady ELSE 0, sin)
    ELSE IF addr = KBDR
    THEN IF (IF is_ready_to_read(io) THEN KbReady ELSE 0) # 0
         THEN GetchOrDefault(io, sin)
         ELSE ReadOk(0, sin)
    ELSE IF addr = DSR THEN ReadOk(KbReady, sin)
    ELSE IF addr = DDR THEN ReadOk(0, sin)
    ELSE IF addr < MemSize THEN ReadOk(Cell(mem, addr), sin)
    ELSE [outcome |-> "panic", val |-> 0, stdin |-> sin]

\* write_mem that intercepts only DDR
write_mem_bug(mem, addr, val, o, fl, ok) ==
    IF addr = DDR
    THEN IF ok
         THEN [outcome |-> "ok", memory |-> mem,
               out |-> WriteByte(o, AsU8(val)), flushes |-> fl + 1]
         ELSE [outcome |-> "panic", memory |-> mem, out |-> o, flushes |-> fl]
    ELSE IF addr < MemSize
    THEN [outcome |-> "ok", memory |-> Store(mem, addr, val), out |-> o,
          flushes |-> fl]
    ELSE [outcome |-> "panic", memory |-> mem, out |-> o, flushes |-> fl]

\* Vm::write_mem: nothing for KBSR, KBDR and DSR; a byte written and a flush
\* for DDR (each unwrapped); else self.memory[addr] = val, which panics for an
\* index that is not below the Vec's length
write_mem(mem, addr, val, o, fl, ok) ==
    IF addr \in {KBSR, KBDR, DSR}
    THEN [outcome |-> "ok", memory |-> mem, out |-> o, flushes |-> fl]
    ELSE IF addr = DDR
    THEN IF ok
         THEN [outcome |-> "ok", memory |-> mem,
               out |-> WriteByte(o, AsU8(val)), flushes |-> fl + 1]
         ELSE [outcome |-> "panic", memory |-> mem, out |-> o, flushes |-> fl]
    ELSE IF addr < MemSize
    THEN [outcome |-> "ok", memory |-> Store(mem, addr, val), out |-> o,
          flushes |-> fl]
    ELSE [outcome |-> "panic", memory |-> mem, out |-> o, flushes |-> fl]

----------------------------------------------------------------------------
(* Image files.  A file is its leading bytes `head` followed by `zeros`    *)
(* bytes 0x00, which lets a file of 128 KiB be written down.               *)

BE(w) == <<w \div 256, w % 256>>

RECURSIVE WordsBytes(_)
WordsBytes(ws) == IF ws = <<>> THEN <<>> ELSE BE(Head(ws)) \o WordsBytes(Tail(ws))

\* the file an assembler writes for `words` at `origin`, then `zeros` bytes 0
File(origin, words, zeros) ==
    [readable |-> TRUE, head |-> BE(origin) \o WordsBytes(words), zeros |-> zeros]

NoFile == [readable |-> FALSE, head |-> <<>>, zeros |-> 0]

\* data.len() of std::fs::read(file)
FileLen(f) == Len(f.head) + f.zeros

\* byte k (from 0) of the file
FileByte(f, k) == IF k < Len(f.head) THEN f.head[k + 1] ELSE 0

\* u16::from_be_bytes of chunk i (from 0) of the data after the origin
ImageWord(f, i) == from_be_bytes(FileByte(f, 2 + 2 * i), FileByte(f, 3 + 2 * i))

\* let len = data.len() / u16_len, of the data after the origin
ImageLen(f) == (FileLen(f) - 2) \div 2

\* the origin read_image decodes
ImageOrigin(f) == from_be_bytes(FileByte(f, 0), FileByte(f, 1))

\* the copy loop of read_image: cells origin .. origin+len-1 take the image's
\* words, the others keep theirs
CopyImage(mem, f, origin, len) ==
    LET headWords == (Len(f.head) - 1) \div 2
        last == IF len < headWords THEN len ELSE headWords
        nz   == {i \in 0 .. (last - 1) : ImageWord(f, i) # 0}
        keep == {a \in DOMAIN mem : a < origin \/ a >= origin + len}
    IN  [a \in keep \cup {origin + i : i \in nz} |->
            IF a \in keep THEN mem[a] ELSE ImageWord(f, a - origin)]

----------------------------------------------------------------------------
(* Construction *)

\* Vm::new(pc, psr) as main calls it, and Vm::default() = Vm::new(0, 0)
CtorArgs == {<<MainPc, FlagZero>>, <<0, 0>>}

\* what stdin holds when the machine starts
Inputs == {<<>>, <<0, 65>>}

\* Vm::new: memory zero-filled, registers zeroed, pc and psr as given
New ==
    /\ \E a \in CtorArgs : pc = a[1] /\ psr = a[2]
    /\ memory = ZeroMem
    /\ reg = [r \in 0 .. 7 |-> 0]
    /\ status = "Constructed"
    /\ fault = "None"
    /\ stdin \in Inputs
    /\ stdoutOk \in BOOLEAN
    /\ out = <<>>
    /\ flushes = 0
    /\ executed = 0
    /\ loads = 0
    /\ inst = -1
    /\ at = 0

Init == New /\ sx = NoCall

----------------------------------------------------------------------------
(* Vm::read_image *)

\* Vm::read_image(file): Err when the file cannot be read; a panic in
\* split_at for a file of fewer than 2 bytes; pc = origin; Err when len >
\* u16::MAX; a panic in the slice memory[origin..origin+len] when its end is
\* beyond the Vec; else the copy
read_image(f) ==
    /\ loads' = loads + 1
    /\ UNCHANGED <<reg, psr, stdin, stdoutOk, out, flushes, executed, inst, at, sx>>
    /\ IF ~f.readable
       THEN /\ status' = "LoadError" /\ fault' = "Io"
            /\ UNCHANGED <<memory, pc>>
       ELSE IF FileLen(f) < 2
       THEN /\ status' = "Panicked" /\ fault' = "SplitAt"
            /\ UNCHANGED <<memory, pc>>
       ELSE LET origin == ImageOrigin(f)
                len == ImageLen(f)
            IN  /\ pc' = origin
                /\ IF len > U16Max
                   THEN /\ status' = "LoadError" /\ fault' = "ImageTooLarge"
                        /\ UNCHANGED memory
                   ELSE IF origin + len > MemSize
                   THEN /\ status' = "Panicked" /\ fault' = "SliceIndex"
                        /\ UNCHANGED memory
                   ELSE /\ status' = "Loaded" /\ fault' = "None"
                        /\ memory' = CopyImage(memory, f, origin, len)

\* the files the loader is exercised with: no file, a file too short for an
\* origin, an odd trailing byte, images at the bottom, the middle and the top
\* of the address space, and images of 65534 to 65537 words
LoaderFiles ==
    {NoFile,
     [readable |-> TRUE, head |-> <<48>>, zeros |-> 0],
     [readable |-> TRUE, head |-> <<48, 0, 16, 1, 16>>, zeros |-> 0]}
    \cup {File(o, ws, 0) :
            o \in {0, MainPc, 65534, 65535},
            ws \in {<<>>, <<4097, 4098>>, <<0, 72>>}}
    \cup {File(o, <<72>>, 2 * n) :
            o \in {0, 1, MainPc}, n \in {65533, 65534, 65535, 65536}}

\* a caller of the library loading one image after another
Reload ==
    /\ loads < MaxLoads
    /\ status \in {"Constructed", "Loaded", "LoadError"}
    /\ \E f \in LoaderFiles : read_image(f)

\* the loader does not touch the console
LoaderInit == Init /\ stdin = <<>> /\ stdoutOk

LoaderNext == Reload

LoaderSpec == LoaderInit /\ [][LoaderNext]_vars

----------------------------------------------------------------------------
(* sign_ext on its own: every 16-bit value at the widths run() uses *)

Widths == {5, 6, 9, 11}

\* a call about to be made (res = -1: it has not returned)
SignExtInit ==
    /\ New
    /\ pc = MainPc /\ stdin = <<>> /\ stdoutOk
    /\ \E v \in Word, b \in Widths : sx = [val |-> v, bits |-> b, res |-> -1]

\* the call returns
SignExtReturn ==
    /\ sx.res = -1
    /\ sx' = SignExtCall(sx.val, sx.bits)
    /\ UNCHANGED <<memory, pc, reg, psr, status, fault, stdin, stdoutOk, out,
                   flushes, executed, loads, inst, at>>

SignExtNext == SignExtReturn

SignExtSpec == SignExtInit /\ [][SignExtNext]_vars

----------------------------------------------------------------------------
(* Vm::run: the fetch / decode / execute loop *)

\* main: read_image returned Ok, run() is entered and sets running = true
RunStart ==
    /\ status = "Loaded"
    /\ status' = "Running"
    /\ UNCHANGED <<memory, pc, reg, psr, fault, stdin, stdoutOk, out, flushes,
                   executed, loads, inst, at, sx>>

\* the loop is about to fetch (the model follows at most MaxSteps iterations)
Running == status = "Running" /\ executed < MaxSteps

\* let inst = self.read_mem(self.pc)
Fetch(io) == read_mem(memory, pc, io, stdin)

\* the fetch succeeded: `inst` holds the word, fetched from pc
Fetched(f) ==
    /\ f.outcome = "ok"
    /\ inst' = f.val
    /\ at' = pc

\* the process state a read or write outcome other than "ok" leaves
StatusOf(outcome) == IF outcome = "block" THEN "Blocked" ELSE "Panicked"

\* the 3-bit register fields of an instruction
Field9(w) == BitAnd(Shr(w, 9), 7)
Field6(w) == BitAnd(Shr(w, 6), 7)
Field0(w) == BitAnd(w, 7)

\* the instruction stops the process part-way: pc and the registers are as
\* the handler had left them
Abort(kind, why, npc, nreg, nstdin) ==
    /\ status' = kind
    /\ fault' = why
    /\ pc' = npc
    /\ reg' = nreg
    /\ stdin' = nstdin
    /\ UNCHANGED <<memory, psr, stdoutOk, out, flushes, executed, loads>>

\* the iteration completes with these registers, pc and condition code
Complete(npc, nreg, npsr, nstdin) ==
    /\ pc' = npc
    /\ reg' = nreg
    /\ psr' = npsr
    /\ stdin' = nstdin
    /\ executed' = executed + 1
    /\ UNCHANGED <<status, fault, stdoutOk, loads>>

\* the instruction at pc may read the input device: it is fetched from KBSR
\* or KBDR, or it loads through read_mem, or it is a GETC or IN trap
TouchesInput ==
    \/ pc \in {KBSR, KBDR}
    \/ LET w == Cell(memory, pc)
       IN  \/ Decode(w) \in {OpLd, OpLdi, OpLdr, OpSti}
           \/ Decode(w) = OpTrap /\ BitAnd(w, 255) \in {GETC, TRAP_IN}

\* the operating system's answers to enumerate for the instruction at pc: all
\* of them when it may read the input device, one (never consulted) otherwise
IOSet ==
    IF TouchesInput THEN IOChoices ELSE {[sel |-> TRUE, rd |-> "ok"]}

\* read_mem(self.pc) itself fails: the index is beyond the Vec, or the fetch
\* is from KBDR and getch never returns
FetchFault ==
    /\ Running
    /\ \E io \in IOSet :
         LET f == Fetch(io)
         IN  /\ f.outcome # "ok"
             /\ UNCHANGED <<inst, at, sx>>
             /\ Abort(StatusOf(f.outcome),
                      IF f.outcome = "block" THEN "Getch" ELSE "MemIndex",
                      pc, reg, stdin)

Br ==
    /\ Running
    /\ \E io \in IOSet :
         LET f == Fetch(io)
             w == f.val
             npc == wrapping_add(pc, 1)
             nzp == BitAnd(Shr(w, 9), 7)
             current_nzp == BitAnd(psr, 7)
             offset == sign_ext(w, 9)
         IN  /\ Fetched(f)
             /\ Decode(w) = OpBr
             /\ sx' = SignExtCall(w, 9)
             /\ Complete(IF BitAnd(nzp, current_nzp) # 0
                         THEN wrapping_add(npc, offset) ELSE npc,
                         reg, psr, f.stdin)
             /\ UNCHANGED <<memory, out, flushes>>

\* Add whose immediate is not sign-extended
Add_bug ==
    /\ Running
    /\ \E io \in IOSet :
         LET f == Fetch(io)
             w == f.val
             npc == wrapping_add(pc, 1)
             dr == Field9(w)
             sr1 == Field6(w)
             nreg == IF BitAnd(w, Shl(1, 5)) # 0
                     THEN [reg EXCEPT ![dr] = wrapping_add(reg[sr1], BitAnd(w, 31))]
                     ELSE [reg EXCEPT ![dr] = wrapping_add(reg[sr1], reg[Field0(w)])]
         IN  /\ Fetched(f)
             /\ Decode(w) = OpAdd
             /\ sx' = IF BitAnd(w, Shl(1, 5)) # 0 THEN SignExtCall(w, 5) ELSE sx
             /\ Complete(npc, nreg, set_cc(nreg, dr), f.stdin)
             /\ UNCHANGED <<memory, out, flushes>>

Add ==
    /\ Running
    /\ \E io \in IOSet :
         LET f == Fetch(io)
             w == f.val
             npc == wrapping_add(pc, 1)
             dr == Field9(w)
             sr1 == Field6(w)
             nreg == IF BitAnd(w, Shl(1, 5)) # 0
                     THEN [reg EXCEPT ![dr] = wrapping_add(reg[sr1], sign_ext(w, 5))]
                     ELSE [reg EXCEPT ![dr] = wrapping_add(reg[sr1], reg[Field0(w)])]
         IN  /\ Fetched(f)
             /\ Decode(w) = OpAdd
             /\ sx' = IF BitAnd(w, Shl(1, 5)) # 0 THEN SignExtCall(w, 5) ELSE sx
             /\ Complete(npc, nreg, set_cc(nreg, dr), f.stdin)
             /\ UNCHANGED <<memory, out, flushes>>

Ld ==
    /\ Running
    /\ \E io \in IOSet :
         LET f == Fetch(io)
             w == f.val
             npc == wrapping_add(pc, 1)
             dr == Field9(w)
             offset == sign_ext(w, 9)
             r == read_mem(memory, wrapping_add(npc, offset), io, f.stdin)
             nreg == [reg EXCEPT ![dr] = r.val]
         IN  /\ Fetched(f)
             /\ Decode(w) = OpLd
             /\ sx' = SignExtCall(w, 9)
             /\ IF r.outcome = "ok"
                THEN /\ Complete(npc, nreg, set_cc(nreg, dr), r.stdin)
                     /\ UNCHANGED <<memory, out, flushes>>
                ELSE Abort(StatusOf(r.outcome),
                           IF r.outcome = "block" THEN "Getch" ELSE "MemIndex",
                           npc, reg, r.stdin)

\* St that sets the condition code from the stored register
St_bug ==
    /\ Running
    /\ \E io \in IOSet :
         LET f == Fetch(io)
             w == f.val
             npc == wrapping_add(pc, 1)
             sr == Field9(w)
             offset == sign_ext(w, 9)
             wr == write_mem(memory, wrapping_add(npc, offset), reg[sr], out,
                            flushes, stdoutOk)
         IN  /\ Fetched(f)
             /\ Decode(w) = OpSt
             /\ sx' = SignExtCall(w, 9)
             /\ IF wr.outcome = "ok"
                THEN /\ Complete(npc, reg, set_cc(reg, sr), f.stdin)
                     /\ memory' = wr.memory
                     /\ out' = wr.out
                     /\ flushes' = wr.flushes
                ELSE Abort("Panicked",
                           IF wrapping_add(npc, offset) = DDR THEN "Stdout" ELSE "MemIndex",
                           npc, reg, f.stdin)

St ==
    /\ Running
    /\ \E io \in IOSet :
         LET f == Fetch(io)
             w == f.val
             npc == wrapping_add(pc, 1)
             sr == Field9(w)
             offset == sign_ext(w, 9)
             wr == write_mem(memory, wrapping_add(npc, offset), reg[sr], out,
                            flushes, stdoutOk)
         IN  /\ Fetched(f)
             /\ Decode(w) = OpSt
             /\ sx' = SignExtCall(w, 9)
             /\ IF wr.outcome = "ok"
                THEN /\ Complete(npc, reg, psr, f.stdin)
                     /\ memory' = wr.memory
                     /\ out' = wr.out
                     /\ flushes' = wr.flushes
                ELSE Abort("Panicked",
                           IF wrapping_add(npc, offset) = DDR THEN "Stdout" ELSE "MemIndex",
                           npc, reg, f.stdin)

\* Jsr that writes R7 before it reads the base register
Jsr_bug ==
    /\ Running
    /\ \E io \in IOSet :
         LET f == Fetch(io)
             w == f.val
             npc == wrapping_add(pc, 1)
             nreg == [reg EXCEPT ![7] = npc]
             target == IF BitAnd(w, Shl(1, 11)) # 0
                       THEN wrapping_add(npc, sign_ext(w, 11))
                       ELSE nreg[Field6(w)]
         IN  /\ Fetched(f)
             /\ Decode(w) = OpJsr
             /\ sx' = IF BitAnd(w, Shl(1, 11)) # 0 THEN SignExtCall(w, 11) ELSE sx
             /\ Complete(target, nreg, psr, f.stdin)
             /\ UNCHANGED <<memory, out, flushes>>

Jsr ==
    /\ Running
    /\ \E io \in IOSet :
         LET f == Fetch(io)
             w == f.val
             npc == wrapping_add(pc, 1)
             temp == npc
             target == IF BitAnd(w, Shl(1, 11)) # 0
                       THEN wrapping_add(npc, sign_ext(w, 11))
                       ELSE reg[Field6(w)]
         IN  /\ Fetched(f)
             /\ Decode(w) = OpJsr
             /\ sx' = IF BitAnd(w, Shl(1, 11)) # 0 THEN SignExtCall(w, 11) ELSE sx
             /\ Complete(target, [reg EXCEPT ![7] = temp], psr, f.stdin)
             /\ UNCHANGED <<memory, out, flushes>>

\* And whose immediate is not sign-extended
And_bug ==
    /\ Running
    /\ \E io \in IOSet :
         LET f == Fetch(io)
             w == f.val
             npc == wrapping_add(pc, 1)
             dr == Field9(w)
             sr1 == Field6(w)
             nreg == IF BitAnd(w, Shl(1, 5)) # 0
                     THEN [reg EXCEPT ![dr] = BitAnd(reg[sr1], BitAnd(w, 31))]
                     ELSE [reg EXCEPT ![dr] = BitAnd(reg[sr1], reg[Field0(w)])]
         IN  /\ Fetched(f)
             /\ Decode(w) = OpAnd
             /\ sx' = IF BitAnd(w, Shl(1, 5)) # 0 THEN SignExtCall(w, 5) ELSE sx
             /\ Complete(npc, nreg, set_cc(nreg, dr), f.stdin)
             /\ UNCHANGED <<memory, out, flushes>>

And ==
    /\ Running
    /\ \E io \in IOSet :
         LET f == Fetch(io)
             w == f.val
             npc == wrapping_add(pc, 1)
             dr == Field9(w)
             sr1 == Field6(w)
             nreg == IF BitAnd(w, Shl(1, 5)) # 0
                     THEN [reg EXCEPT ![dr] = BitAnd(reg[sr1], sign_ext(w, 5))]
                     ELSE [reg EXCEPT ![dr] = BitAnd(reg[sr1], reg[Field0(w)])]
         IN  /\ Fetched(f)
             /\ Decode(w) = OpAnd
             /\ sx' = IF BitAnd(w, Shl(1, 5)) # 0 THEN SignExtCall(w, 5) ELSE sx
             /\ Complete(npc, nreg, set_cc(nreg, dr), f.stdin)
             /\ UNCHANGED <<memory, out, flushes>>

Ldr ==
    /\ Running
    /\ \E io \in IOSet :
         LET f == Fetch(io)
             w == f.val
             npc == wrapping_add(pc, 1)
             dr == Field9(w)
             br == Field6(w)
             offset == sign_ext(w, 6)
             addr == wrapping_add(reg[br], offset)
             r == read_mem(memory, addr, io, f.stdin)
             nreg == [reg EXCEPT ![dr] = r.val]
         IN  /\ Fetched(f)
             /\ Decode(w) = OpLdr
             /\ sx' = SignExtCall(w, 6)
             /\ IF r.outcome = "ok"
                THEN /\ Complete(npc, nreg, set_cc(nreg, dr), r.stdin)
                     /\ UNCHANGED <<memory, out, flushes>>
                ELSE Abort(StatusOf(r.outcome),
                           IF r.outcome = "block" THEN "Getch" ELSE "MemIndex",
                           npc, reg, r.stdin)

Str ==
    /\ Running
    /\ \E io \in IOSet :
         LET f == Fetch(io)
             w == f.val
             npc == wrapping_add(pc, 1)
             sr == Field9(w)
             br == Field6(w)
             offset == sign_ext(w, 6)
             addr == wrapping_add(reg[br], offset)
             wr == write_mem(memory, addr, reg[sr], out, flushes, stdoutOk)
         IN  /\ Fetched(f)
             /\ Decode(w) = OpStr
             /\ sx' = SignExtCall(w, 6)
             /\ IF wr.outcome = "ok"
                THEN /\ Complete(npc, reg, psr, f.stdin)
                     /\ memory' = wr.memory
                     /\ out' = wr.out
                     /\ flushes' = wr.flushes
                ELSE Abort("Panicked",
                           IF addr = DDR THEN "Stdout" ELSE "MemIndex",
                           npc, reg, f.stdin)

Not ==
    /\ Running
    /\ \E io \in IOSet :
         LET f == Fetch(io)
             w == f.val
             npc == wrapping_add(pc, 1)
             dr == Field9(w)
             sr1 == Field6(w)
             nreg == [reg EXCEPT ![dr] = BitNot(reg[sr1])]
         IN  /\ Fetched(f)
             /\ Decode(w) = OpNot
             /\ UNCHANGED sx
             /\ Complete(npc, nreg, set_cc(nreg, dr), f.stdin)
             /\ UNCHANGED <<memory, out, flushes>>

Ldi ==
    /\ Running
    /\ \E io \in IOSet :
         LET f == Fetch(io)
             w == f.val
             npc == wrapping_add(pc, 1)
             dr == Field9(w)
             offset == sign_ext(w, 9)
             a == read_mem(memory, wrapping_add(npc, offset), io, f.stdin)
             r == read_mem(memory, a.val, io, a.stdin)
             nreg == [reg EXCEPT ![dr] = r.val]
         IN  /\ Fetched(f)
             /\ Decode(w) = OpLdi
             /\ sx' = SignExtCall(w, 9)
             /\ IF a.outcome # "ok"
                THEN Abort(StatusOf(a.outcome),
                           IF a.outcome = "block" THEN "Getch" ELSE "MemIndex",
                           npc, reg, a.stdin)
                ELSE IF r.outcome # "ok"
                THEN Abort(StatusOf(r.outcome),
                           IF r.outcome = "block" THEN "Getch" ELSE "MemIndex",
                           npc, reg, r.stdin)
                ELSE /\ Complete(npc, nreg, set_cc(nreg, dr), r.stdin)
                     /\ UNCHANGED <<memory, out, flushes>>

Sti ==
    /\ Running
    /\ \E io \in IOSet :
         LET f == Fetch(io)
             w == f.val
             npc == wrapping_add(pc, 1)
             sr == Field9(w)
             offset == sign_ext(w, 9)
             a == read_mem(memory, wrapping_add(npc, offset), io, f.stdin)
             wr == write_mem(memory, a.val, reg[sr], out, flushes, stdoutOk)
         IN  /\ Fetched(f)
             /\ Decode(w) = OpSti
             /\ sx' = SignExtCall(w, 9)
             /\ IF a.outcome # "ok"
                THEN Abort(StatusOf(a.outcome),
                           IF a.outcome = "block" THEN "Getch" ELSE "MemIndex",
                           npc, reg, a.stdin)
                ELSE IF wr.outcome # "ok"
                THEN Abort("Panicked",
                           IF a.val = DDR THEN "Stdout" ELSE "MemIndex",
                           npc, reg, a.stdin)
                ELSE /\ Complete(npc, reg, psr, a.stdin)
                     /\ memory' = wr.memory
                     /\ out' = wr.out
                     /\ flushes' = wr.flushes

Jmp ==
    /\ Running
    /\ \E io \in IOSet :
         LET f == Fetch(io)
             w == f.val
             br == Field6(w)
         IN  /\ Fetched(f)
             /\ Decode(w) = OpJmp
             /\ UNCHANGED sx
             /\ Complete(reg[br], reg, psr, f.stdin)
             /\ UNCHANGED <<memory, out, flushes>>

Lea ==
    /\ Running
    /\ \E io \in IOSet :
         LET f == Fetch(io)
             w == f.val
             npc == wrapping_add(pc, 1)
             dr == Field9(w)
             offset == sign_ext(w, 9)
             nreg == [reg EXCEPT ![dr] = wrapping_add(npc, offset)]
         IN  /\ Fetched(f)
             /\ Decode(w) = OpLea
             /\ sx' = SignExtCall(w, 9)
             /\ Complete(npc, nreg, set_cc(nreg, dr), f.stdin)
             /\ UNCHANGED <<memory, out, flushes>>

\* Opcode::Rti | Opcode::Reserved => unimplemented!
BadOpcode ==
    /\ Running
    /\ \E io \in IOSet :
         LET f == Fetch(io)
             w == f.val
             npc == wrapping_add(pc, 1)
         IN  /\ Fetched(f)
             /\ Decode(w) \in {OpRti, OpReserved}
             /\ UNCHANGED sx
             /\ Abort("Panicked", "InvalidOpcode", npc, reg, f.stdin)

----------------------------------------------------------------------------
(* Opcode::Trap: self.reg[7] = self.pc, then the trap handlers *)

\* let trap = inst & 0xFF
TrapVector(w) == BitAnd(w, 255)

\* the fetched word is a Trap instruction with this vector
IsTrap(f, v) ==
    /\ Fetched(f)
    /\ UNCHANGED sx
    /\ Decode(f.val) = OpTrap
    /\ TrapVector(f.val) = v

\* self.reg[7] = self.pc, pc being already advanced
TrapRegs(npc) == [reg EXCEPT ![7] = npc]

TrapGetc ==
    /\ Running
    /\ \E io \in IOSet :
         LET f == Fetch(io)
             npc == wrapping_add(pc, 1)
             g == GetchOrDefault(io, f.stdin)
             nreg == [TrapRegs(npc) EXCEPT ![0] = g.val]
         IN  /\ IsTrap(f, GETC)
             /\ IF g.outcome = "ok"
                THEN /\ Complete(npc, nreg, set_cc(nreg, 0), g.stdin)
                     /\ UNCHANGED <<memory, out, flushes>>
                ELSE Abort("Blocked", "Getch", npc, TrapRegs(npc), f.stdin)

TrapOut ==
    /\ Running
    /\ \E io \in IOSet :
         LET f == Fetch(io)
             npc == wrapping_add(pc, 1)
             nreg == TrapRegs(npc)
             byte == AsU8(nreg[0])
         IN  /\ IsTrap(f, OUT)
             /\ IF stdoutOk
                THEN /\ Complete(npc, nreg, psr, f.stdin)
                     /\ out' = WriteByte(out, byte)
                     /\ UNCHANGED <<memory, flushes>>
                ELSE Abort("Panicked", "Stdout", npc, nreg, f.stdin)

RECURSIVE position_zero(_, _)
\* slice.iter().position(|w| *w == 0x0000) over memory[a..]: the address of
\* the first zero cell from a on, or -1 (None) when there is none
position_zero(mem, a) ==
    IF a >= MemSize THEN -1
    ELSE IF Cell(mem, a) = 0 THEN a
    ELSE position_zero(mem, a + 1)

\* let end = ...position(...).unwrap_or_default()
puts_end(mem, addr) ==
    LET z == position_zero(mem, addr)
    IN  IF z = -1 THEN 0 ELSE z - addr

\* the bytes PUTS writes: `word as u8` for each word of slice[..end]
puts_bytes(mem, addr) ==
    [i \in 1 .. puts_end(mem, addr) |-> AsU8(Cell(mem, addr + i - 1))]

TrapPuts ==
    /\ Running
    /\ \E io \in IOSet :
         LET f == Fetch(io)
             npc == wrapping_add(pc, 1)
             nreg == TrapRegs(npc)
             addr == nreg[0]
         IN  /\ IsTrap(f, PUTS)
             /\ IF stdoutOk
                THEN /\ Complete(npc, nreg, psr, f.stdin)
                     /\ out' = WriteBytes(out, puts_bytes(memory, addr))
                     /\ flushes' = flushes + 1
                     /\ UNCHANGED memory
                ELSE Abort("Panicked", "Stdout", npc, nreg, f.stdin)

\* "Enter a character: "
Prompt == <<69, 110, 116, 101, 114, 32, 97, 32, 99, 104, 97, 114, 97, 99, 116,
            101, 114, 58, 32>>

TrapIn ==
    /\ Running
    /\ \E io \in IOSet :
         LET f == Fetch(io)
             npc == wrapping_add(pc, 1)
             nreg == TrapRegs(npc)
             g == GetchOrDefault(io, f.stdin)
             prompted == WriteBytes(out, Prompt)
         IN  /\ IsTrap(f, TRAP_IN)
             /\ IF ~stdoutOk
                THEN Abort("Panicked", "Stdout", npc, nreg, f.stdin)
                ELSE IF g.outcome # "ok"
                THEN /\ status' = "Blocked"
                     /\ fault' = "Getch"
                     /\ pc' = npc
                     /\ reg' = nreg
                     /\ out' = prompted
                     /\ flushes' = flushes + 1
                     /\ UNCHANGED <<memory, psr, stdin, stdoutOk, executed, loads>>
                ELSE /\ Complete(npc, nreg, psr, g.stdin)
                     /\ out' = WriteByte(prompted, g.val)
                     /\ flushes' = flushes + 1
                     /\ UNCHANGED memory

\* the bytes PUTSP writes for one word: both bytes of to_le_bytes when the
\* high byte is not 0, else the low byte
putsp_word(o, word) ==
    LET bytes == to_le_bytes(word)
    IN  IF bytes[2] # 0 THEN WriteBytes(o, bytes)
        ELSE WriteByte(o, bytes[1])

RECURSIVE putsp_out(_, _, _)
\* for &word in slice, over memory[a..]: the zero cells up to the next
\* non-zero cell write one byte 0 each, then that cell's bytes are written,
\* and so on to the end of the Vec
putsp_out(mem, a, o) ==
    LET nz == {x \in DOMAIN mem : x >= a /\ x < MemSize}
    IN  IF nz = {} THEN WriteZeros(o, IF a < MemSize THEN MemSize - a ELSE 0)
        ELSE LET n == CHOOSE x \in nz : \A y \in nz : x <= y
             IN  putsp_out(mem, n + 1, putsp_word(WriteZeros(o, n - a), mem[n]))

TrapPutsp ==
    /\ Running
    /\ \E io \in IOSet :
         LET f == Fetch(io)
             npc == wrapping_add(pc, 1)
             nreg == TrapRegs(npc)
             addr == nreg[0]
         IN  /\ IsTrap(f, PUTSP)
             /\ IF stdoutOk
                THEN /\ Complete(npc, nreg, psr, f.stdin)
                     /\ out' = putsp_out(memory, addr, out)
                     /\ flushes' = flushes + 1
                     /\ UNCHANGED memory
                ELSE Abort("Panicked", "Stdout", npc, nreg, f.stdin)

\* "HALT\n", what println!("HALT") writes
HaltLine == <<72, 65, 76, 84, 10>>

\* HALT without `self.running = false`
TrapHalt_bug ==
    /\ Running
    /\ \E io \in IOSet :
         LET f == Fetch(io)
             npc == wrapping_add(pc, 1)
             nreg == TrapRegs(npc)
         IN  /\ IsTrap(f, HALT)
             /\ IF stdoutOk
                THEN /\ Complete(npc, nreg, psr, f.stdin)
                     /\ out' = WriteBytes(out, HaltLine)
                     /\ UNCHANGED <<memory, flushes>>
                ELSE Abort("Panicked", "Stdout", npc, nreg, f.stdin)

\* HALT that sets the condition code from R7
TrapHalt_cc ==
    /\ Running
    /\ \E io \in IOSet :
         LET f == Fetch(io)
             npc == wrapping_add(pc, 1)
             nreg == TrapRegs(npc)
         IN  /\ IsTrap(f, HALT)
             /\ IF stdoutOk
                THEN /\ pc' = npc
                     /\ reg' = nreg
                     /\ stdin' = f.stdin
                     /\ out' = WriteBytes(out, HaltLine)
                     /\ status' = "Halted"
                     /\ executed' = executed + 1
                     /\ psr' = set_cc(nreg, 7)
                     /\ UNCHANGED <<memory, fault, stdoutOk, flushes, loads>>
                ELSE Abort("Panicked", "Stdout", npc, nreg, f.stdin)

TrapHalt ==
    /\ Running
    /\ \E io \in IOSet :
         LET f == Fetch(io)
             npc == wrapping_add(pc, 1)
             nreg == TrapRegs(npc)
         IN  /\ IsTrap(f, HALT)
             /\ IF stdoutOk
                THEN /\ pc' = npc
                     /\ reg' = nreg
                     /\ stdin' = f.stdin
                     /\ out' = WriteBytes(out, HaltLine)
                     /\ status' = "Halted"
                     /\ executed' = executed + 1
                     /\ UNCHANGED <<memory, psr, fault, stdoutOk, flushes, loads>>
                ELSE Abort("Panicked", "Stdout", npc, nreg, f.stdin)

\* an unknown trap vector taken as a trap that does nothing
BadTrap_bug ==
    /\ Running
    /\ \E io \in IOSet :
         LET f == Fetch(io)
             npc == wrapping_add(pc, 1)
         IN  /\ Fetched(f)
             /\ UNCHANGED sx
             /\ Decode(f.val) = OpTrap
             /\ TrapVector(f.val) \notin {GETC, OUT, PUTS, TRAP_IN, PUTSP, HALT}
             /\ Complete(npc, TrapRegs(npc), psr, f.stdin)
             /\ UNCHANGED <<memory, out, flushes>>

\* _ => unimplemented!("Bad trap")
BadTrap ==
    /\ Running
    /\ \E io \in IOSet :
         LET f == Fetch(io)
             npc == wrapping_add(pc, 1)
         IN  /\ Fetched(f)
             /\ UNCHANGED sx
             /\ Decode(f.val) = OpTrap
             /\ TrapVector(f.val) \notin {GETC, OUT, PUTS, TRAP_IN, PUTSP, HALT}
             /\ Abort("Panicked", "InvalidTrap", npc, TrapRegs(npc), f.stdin)

----------------------------------------------------------------------------
(* The programs the machine is run on *)

\* instruction words; immediates and offsets are given as their raw fields
Enc(op, rest) == op * 4096 + rest
BR(nzp, off9) == Enc(OpBr, nzp * 512 + off9)
ADDr(dr, sr1, sr2) == Enc(OpAdd, dr * 512 + sr1 * 64 + sr2)
ADDi(dr, sr1, imm5) == Enc(OpAdd, dr * 512 + sr1 * 64 + 32 + imm5)
ANDr(dr, sr1, sr2) == Enc(OpAnd, dr * 512 + sr1 * 64 + sr2)
ANDi(dr, sr1, imm5) == Enc(OpAnd, dr * 512 + sr1 * 64 + 32 + imm5)
NOT(dr, sr) == Enc(OpNot, dr * 512 + sr * 64 + 63)
LD(dr, off9) == Enc(OpLd, dr * 512 + off9)
ST(sr, off9) == Enc(OpSt, sr * 512 + off9)
LDI(dr, off9) == Enc(OpLdi, dr * 512 + off9)
STI(sr, off9) == Enc(OpSti, sr * 512 + off9)
LEA(dr, off9) == Enc(OpLea, dr * 512 + off9)
LDR(dr, br, off6) == Enc(OpLdr, dr * 512 + br * 64 + off6)
STR(sr, br, off6) == Enc(OpStr, sr * 512 + br * 64 + off6)
JMP(br) == Enc(OpJmp, br * 64)
JSR(off11) == Enc(OpJsr, 2048 + off11)
JSRR(br) == Enc(OpJsr, br * 64)
TRAP(v) == Enc(OpTrap, v)

\* where the programs are loaded: where main's programs usually are, just
\* below the device registers, and at the top of the address space
DevOrigin == KBSR - 2
TopOrigin == MemSize - 4

\* the first instruction of a program: it prepares R0 (and R7)
Setups ==
    {BR(0, 0), ADDi(0, 0, 31), LEA(0, 1), LD(0, 1), TRAP(GETC), JSR(0)}

\* loads and stores relative to pc
PcRelTests ==
    {LD(1, 0), LD(1, 1), LD(1, 2), LD(1, 4), LD(1, 6), LD(1, 509),
     ST(0, 0), ST(0, 1), ST(0, 2), ST(0, 4), ST(0, 6), ST(7, 3)}

\* the second instruction of a program, the one under test
Tests ==
    PcRelTests \cup
    {BR(0, 1), BR(7, 1), BR(4, 1), BR(2, 510), BR(1, 1),
     ADDi(0, 0, 5), ADDi(1, 0, 29), ADDr(0, 0, 0), ADDr(2, 0, 7), ADDi(0, 0, 1),
     ANDi(0, 0, 0), ANDi(1, 0, 31), ANDr(0, 0, 7), ANDr(1, 0, 0),
     NOT(0, 0), NOT(1, 0),
     LDI(1, 0), LDI(1, 1), STI(0, 0), STI(0, 1),
     LDR(1, 0, 0), LDR(1, 0, 1), LDR(1, 0, 63),
     STR(0, 0, 0), STR(7, 0, 1), STR(0, 0, 63),
     JMP(0), JMP(7),
     JSR(1), JSR(2047), JSRR(0), JSRR(7),
     LEA(0, 0), LEA(1, 511), LEA(0, 256),
     TRAP(GETC), TRAP(OUT), TRAP(PUTS), TRAP(TRAP_IN), TRAP(PUTSP), TRAP(HALT),
     TRAP(38), TRAP(0),
     Enc(OpRti, 0), Enc(OpReserved, 0)}

\* the tests run at the top of the address space
TopTests ==
    {LD(1, 1), LD(1, 2), ST(0, 1), ST(0, 2), LDR(1, 0, 1), LDR(1, 0, 2),
     STR(0, 0, 2), JSR(1), JSR(2), BR(7, 2), BR(0, 0), LEA(1, 2),
     TRAP(PUTS), TRAP(PUTSP), TRAP(OUT)}

\* the words that follow the two instructions: "HI" packed in one word then a
\* word whose low byte is 0, pointers to device registers, and a pointer to
\* the last address
Text == <<18760, 256>>
Tails == {Text, <<DDR, KBDR>>, <<65535, KBSR>>}

\* an image that lies over the device addresses: after the instruction at
\* KBSR + 1 come the words for KBDR, KBDR + 1, DSR, DSR + 1 and DDR
Backing == <<0, 0, 4660, 0, 22136>>

\* the instruction run on it: loads from and stores to DSR and DDR
BackingTests == {LD(1, 2), LD(1, 4), ST(0, 2), ST(0, 4)}

\* AND R0,R0,#0; ADD R0,R0,#5; ADD R1,R0,#-3; TRAP 0x25
Scenario == <<ANDi(0, 0, 0), ADDi(0, 0, 5), ADDi(1, 0, 29), TRAP(HALT)>>

\* LEA R0,#1; TRAP PUTS; "HI" (the cell after it is 0)
Hello == <<LEA(0, 1), TRAP(PUTS), 72, 73>>

\* the image files main is run on
ProgramFiles ==
    {File(MainPc, <<s, t>> \o tl, 0) : s \in Setups, t \in Tests, tl \in Tails}
    \cup {File(DevOrigin, <<s, t>> \o Text, 0) :
            s \in {BR(0, 0), ADDi(0, 0, 31), TRAP(GETC)}, t \in PcRelTests}
    \cup {File(TopOrigin, <<s, t>> \o Text, 0) :
            s \in {BR(0, 0), LEA(0, 1)}, t \in TopTests}
    \cup {File(KBSR + 1, <<t>> \o Backing, 0) : t \in BackingTests}
    \cup {File(MainPc, Scenario, 0), File(MainPc, Hello, 0),
          File(MainPc, <<4097, 4098>>, 0),
          File(MainPc, <<>>, 0), File(65535, <<>>, 0), File(KBDR, <<>>, 0),
          File(MainPc, <<72>>, 2 * 65535), File(0, <<>>, 2 * 65535),
          File(0, <<>>, 2 * 65536), NoFile,
          [readable |-> TRUE, head |-> <<48>>, zeros |-> 0]}

\* main: vm.read_image(file)? on the Vm just built
Load ==
    /\ status = "Constructed"
    /\ \E f \in ProgramFiles : read_image(f)

\* one iteration of the loop of run()
Step ==
    \/ FetchFault
    \/ Br \/ Add \/ Ld \/ St \/ Jsr \/ And \/ Ldr \/ Str
    \/ Not \/ Ldi \/ Sti \/ Jmp \/ Lea
    \/ TrapGetc \/ TrapOut \/ TrapPuts \/ TrapIn \/ TrapPutsp \/ TrapHalt
    \/ BadTrap
    \/ BadOpcode

Next == Load \/ RunStart \/ Step

Spec == Init /\ [][Next]_vars

----------------------------------------------------------------------------
(* main run on straight-line arithmetic programs: AND R0,R0,#0; ADD R0,R0,#i; *)
(* ADD R1,R0,#j; TRAP HALT.  The scenario of the specification is i = 5,     *)
(* j = -3.                                                                   *)

ArithImmediates == {0, 1, 5, 15, 16, 29, 31}

ArithFiles ==
    {File(MainPc, <<ANDi(0, 0, 0), ADDi(0, 0, i), ADDi(1, 0, j), TRAP(HALT)>>, 0) :
        i \in ArithImmediates, j \in ArithImmediates}

\* main: vm.read_image(file)? on the Vm just built
ArithLoad ==
    /\ status = "Constructed"
    /\ \E f \in ArithFiles : read_image(f)

\* one iteration of the loop of run() on these programs
ArithStep == And \/ Add \/ TrapHalt

ArithNext == ArithLoad \/ RunStart \/ ArithStep

\* while `running` is true the loop goes on to its next iteration
ArithSpec == Init /\ [][ArithNext]_vars /\ WF_vars(ArithStep)

----------------------------------------------------------------------------
(* Properties *)

\* the device addresses read_mem and write_mem intercept
DeviceAddrs == {KBSR, KBDR, DSR, DDR}

\* the word the next fetch delivers when pc addresses a plain memory cell
\* (-1 when pc is a device address or beyond the Vec)
NextWord ==
    IF pc \in DeviceAddrs \/ pc >= MemSize THEN -1 ELSE Cell(memory, pc)

\* the opcode field and the trap vector of a word, by arithmetic
OpOf(w) == w \div 4096
VecOf(w) == w % 256

\* the condition code the specification gives a written value
FlagFor(v) == IF v = 0 THEN FlagZero ELSE IF v >= 32768 THEN FlagNeg ELSE FlagPos

\* memory as read_image leaves it for the scenario's image at 0x3000:
\* 0x5020, 0x1025, 0x123D, 0xF025
ScenarioMemory ==
    [a \in 12288 .. 12291 |-> <<20512, 4133, 4669, 61477>>[a - 12287]]

\* main has built the Vm, loaded the scenario's image and entered run(), with
\* a console that can be written to
ScenarioStart ==
    /\ status = "Running"
    /\ executed = 0
    /\ pc = 12288
    /\ psr = FlagZero
    /\ reg = [r \in 0 .. 7 |-> 0]
    /\ memory = ScenarioMemory
    /\ stdoutOk

ScenarioEnd ==
    /\ status = "Halted"
    /\ executed = 4
    /\ reg[0] = 5
    /\ reg[1] = 2
    /\ psr = FlagPos
    /\ memory = ScenarioMemory

\* C1: from main's Vm (pc 0x3000, condition code zero) loaded with AND R0,R0,#0;
\* ADD R0,R0,#5; ADD R1,R0,#-3; TRAP 0x25, run() eventually reaches Halted
\* having executed exactly 4 instructions, with R0 = 5, R1 = 2 and the
\* condition code positive.
C1_ScenarioHalts == ScenarioStart ~> ScenarioEnd

C1_Witness == ScenarioEnd /\ inst = 61477 /\ at = 12291

\* the last iteration completed and its instruction writes a register through
\* set_cc: Add, And, Not, Ld, Ldi, Ldr, Lea, or the trap GETC
WroteRegister ==
    /\ status = "Running"
    /\ inst # -1
    /\ \/ OpOf(inst) \in {OpAdd, OpAnd, OpNot, OpLd, OpLdi, OpLdr, OpLea}
       \/ OpOf(inst) = OpTrap /\ VecOf(inst) = GETC

\* the register that instruction wrote
DestOf(w) == IF OpOf(w) = OpTrap THEN 0 ELSE (w \div 512) % 8

\* C2: after every execution of a register-writing instruction (Add, And, Not,
\* Ld, Ldi, Ldr, Lea, trap GETC on R0) exactly one of the flags negative, zero,
\* positive is set, and it is the one for the value just written to the
\* destination register: zero for 0, negative for bit 15 set, else positive.
C2_ConditionCodeMatches ==
    WroteRegister =>
        /\ psr \in {FlagNeg, FlagZero, FlagPos}
        /\ psr = FlagFor(reg[DestOf(inst)])

C2_Witness ==
    /\ WroteRegister
    /\ OpOf(inst) = OpLd
    /\ reg[DestOf(inst)] >= 32768
    /\ psr = FlagNeg

\* C3: in every reachable state of a machine, from its construction (Vm::new
\* with its initial value, or Vm::default) through image load and any sequence
\* of executed instructions, psr has exactly one of the three flags set.
C3_ExactlyOneFlag == psr \in {FlagNeg, FlagZero, FlagPos}

\* the value of the low b bits of v read as a b-bit two's-complement number,
\* as a 16-bit word
TwosComplement(v, b) ==
    LET low == v % (2 ^ b)
    IN  IF low >= 2 ^ (b - 1) THEN low + 2 ^ 16 - 2 ^ b ELSE low

\* C4: for every 16-bit v and every width b in {5, 6, 9, 11}, sign_ext(v, b) is
\* the 16-bit two's-complement value of the low b bits of v; so
\* sign_ext(0b10011, 5) = 0xFFF3 and sign_ext(0x30, 5) = 0xFFF0.
C4_SignExt ==
    sx.res # -1 =>
        /\ sx.res = TwosComplement(sx.val, sx.bits)
        /\ (sx.val = 19 /\ sx.bits = 5) => sx.res = 65523
        /\ (sx.val = 48 /\ sx.bits = 5) => sx.res = 65520

C4_Witness == sx.val = 65328 /\ sx.bits = 5 /\ sx.res = 65520

\* the file is an origin followed by whole big-endian words
IsImage(f) == f.readable /\ FileLen(f) >= 2 /\ FileLen(f) % 2 = 0

\* the number of words after the origin
WordCount(f) == (FileLen(f) - 2) \div 2

\* the cells that are not zero before or after a load of f
CellsOfInterest(f) ==
    DOMAIN memory \cup DOMAIN memory'
        \cup {ImageOrigin(f) + i : i \in 0 .. (Len(f.head) \div 2)}

\* C5: for every origin o in 0..65535 and every image of n <= 65536 big-endian
\* words, read_image completes successfully, and afterwards cell o+i holds
\* word i for every i < n, every cell outside the image is unchanged, and
\* pc = o.
C5_LoadSucceeds ==
    [][\A f \in LoaderFiles :
         (IsImage(f) /\ WordCount(f) <= 65536 /\ read_image(f)) =>
            /\ status' = "Loaded"
            /\ fault' = "None"
            /\ pc' = ImageOrigin(f)
            /\ \A a \in CellsOfInterest(f) :
                 Cell(memory', a) =
                    IF a - ImageOrigin(f) \in 0 .. (WordCount(f) - 1)
                    THEN ImageWord(f, a - ImageOrigin(f))
                    ELSE Cell(memory, a)]_vars

\* C6: read_image on an image of more than 65536 words returns ImageTooLarge,
\* and then the machine state is not partially changed: the address space is
\* cell for cell what it was before the call.
C6_TooLargeLeavesState ==
    [][\A f \in LoaderFiles :
         (IsImage(f) /\ WordCount(f) > 65536 /\ read_image(f)) =>
            /\ status' = "LoadError"
            /\ fault' = "ImageTooLarge"
            /\ UNCHANGED <<memory, pc, reg, psr>>]_vars

\* the word about to be fetched is a trap with vector v
TrapNext(v) ==
    /\ status = "Running"
    /\ NextWord # -1
    /\ OpOf(NextWord) = OpTrap
    /\ VecOf(NextWord) = v

RECURSIVE StringAt(_, _)
\* the low bytes of the words at a, a+1, ... up to but excluding the first
\* zero word
StringAt(mem, a) ==
    IF Cell(mem, a) = 0 THEN <<>>
    ELSE <<Cell(mem, a) % 256>> \o StringAt(mem, a + 1)

\* C7: trap PUTS with R0 = A, for every A and every memory content, writes
\* exactly the low bytes of the words at A, A+1, ... up to but excluding the
\* first zero word at or after A, nothing at or past it, and execution
\* continues with the next instruction.
C7_PutsWritesString ==
    [][(TrapNext(PUTS) /\ stdoutOk) =>
          /\ out' = out \o StringAt(memory, reg[0])
          /\ status' = "Running"
          /\ pc' = (pc + 1) % WordMod]_vars

RECURSIVE PackedAt(_, _)
\* for each word from a: its low byte, then its high byte when that is not
\* zero, up to but excluding the first word whose low byte is zero
PackedAt(mem, a) ==
    LET lo == Cell(mem, a) % 256
        hi == Cell(mem, a) \div 256
    IN  IF lo = 0 THEN <<>>
        ELSE (IF hi # 0 THEN <<lo, hi>> ELSE <<lo>>) \o PackedAt(mem, a + 1)

\* C8: trap PUTSP with R0 = A emits, for each word from A, its low byte and
\* then its high byte only if that is non-zero, and stops at the first word
\* whose low byte is zero: that word and every word after it produce no output.
C8_PutspStopsAtTerminator ==
    [][(TrapNext(PUTSP) /\ stdoutOk) =>
          out' = out \o PackedAt(memory, reg[0])]_vars

\* the word is TRAP 0x25
IsHalt(w) == w # -1 /\ OpOf(w) = OpTrap /\ VecOf(w) = HALT

\* C9: Halted is terminal: once a trap with vector 0x25 has executed the loop
\* ends and nothing is fetched or executed any more; and HALT is the only
\* non-fatal way Running is left: every other instruction that completes
\* leaves the machine Running, and any other exit is a fault.
C9_HaltedTerminal ==
    [][/\ status # "Halted"
       /\ (TrapNext(HALT) /\ stdoutOk) =>
             status' = "Halted" /\ fault' = "None" /\ executed' = executed + 1
       /\ status = "Running" =>
             /\ status' = "Halted" => IsHalt(inst') /\ at' = pc
             /\ (executed' = executed + 1 /\ ~IsHalt(inst')) => status' = "Running"
             /\ status' \notin {"Running", "Halted"} => fault' # "None"]_vars

C9_Witness ==
    /\ status = "Halted"
    /\ IsHalt(inst)
    /\ executed = 2
    /\ out = HaltLine

\* C10: fetching a word whose top 4 bits are Rti (1000) or Reserved (1101), or
\* a Trap word whose low 8 bits are not one of 0x20..0x25, puts the engine in a
\* fatal error state (InvalidOpcode / InvalidTrap) and no instruction after the
\* faulting one executes; every other opcode value 0..15 decodes successfully
\* and never raises InvalidOpcode.
C10_InvalidInstructionFatal ==
    [][/\ status # "Panicked"
       /\ (status = "Running" /\ NextWord # -1) =>
             IF OpOf(NextWord) \in {8, 13}
             THEN /\ status' = "Panicked"
                  /\ fault' = "InvalidOpcode"
                  /\ executed' = executed
             ELSE IF OpOf(NextWord) = 15 /\ VecOf(NextWord) \notin 32 .. 37
             THEN /\ status' = "Panicked"
                  /\ fault' = "InvalidTrap"
                  /\ executed' = executed
             ELSE fault' \notin {"InvalidOpcode", "InvalidTrap"}]_vars

C10_Witness ==
    /\ status = "Panicked"
    /\ fault = "InvalidTrap"
    /\ inst = 61478
    /\ executed = 1

----------------------------------------------------------------------------
(* What the specification says of the word about to be executed *)

\* the word about to be fetched has this opcode
OpNext(op) ==
    /\ status = "Running"
    /\ NextWord # -1
    /\ OpOf(NextWord) = op

\* bit i of a word
Bit(x, i) == (x \div (2 ^ i)) % 2

\* the register fields of a word, by arithmetic
DrOf(w) == (w \div 512) % 8
Sr1Of(w) == (w \div 64) % 8
Sr2Of(w) == w % 8

\* pc + 1 + sign-extend(offset, b), mod 2^16
PcRel(w, b) == (pc + 1 + TwosComplement(w, b)) % WordMod

\* the iteration completed: the instruction ran to its end
Completes == executed' = executed + 1 /\ fault' = "None"

\* C11: a read of the keyboard-status address returns a nonzero value only
\* when an input byte is available without blocking, and 0 otherwise; the
\* keyboard-data read returns exactly that byte zero-extended, and when no
\* byte is available it returns 0 without blocking and without consuming
\* input.  (The reads are those of LD Rd from the device address.)
C11_KeyboardReads ==
    [][OpNext(OpLd) =>
          LET v == reg'[DrOf(NextWord)]
          IN  /\ PcRel(NextWord, 9) = KBSR =>
                    /\ Completes
                    /\ stdin' = stdin
                    /\ v # 0 => stdin # <<>>
              /\ PcRel(NextWord, 9) = KBDR =>
                    /\ Completes
                    /\ IF stdin = <<>>
                       THEN v = 0 /\ stdin' = stdin
                       ELSE v # 0 => v = Head(stdin) /\ stdin' = Tail(stdin)]_vars

\* C12: the address space holds 65536 words, so an instruction fetch, load or
\* store at any non-device address (0xFFFF included, and a pc wrapped from
\* 0xFFFF to 0) reads or writes the stored word and never faults with an
\* out-of-range access.
C12_NoOutOfRangeAccess == fault # "MemIndex"

\* C13: store instructions (St, Sti, Str) and pure control-flow instructions
\* (Br, Jmp, Jsr) never change the condition code: psr after the instruction
\* equals psr before it, for every such instruction and every prior state.
C13_StoresAndJumpsKeepCc ==
    [][(status = "Running" /\ NextWord # -1
          /\ OpOf(NextWord) \in {OpSt, OpSti, OpStr, OpBr, OpJmp, OpJsr}) =>
          psr' = psr]_vars

C13_Witness ==
    /\ status = "Running"
    /\ inst # -1
    /\ OpOf(inst) = OpSt
    /\ at = MainPc + 1
    /\ executed = 2
    /\ psr = FlagNeg
    /\ reg[7] = 0

\* C14: executing the HALT trap has no register or memory side effect besides
\* stopping: every register R0..R7, the condition code and every memory cell
\* have the same value after the HALT instruction as immediately before it.
C14_HaltNoSideEffect ==
    [][TrapNext(HALT) =>
          reg' = reg /\ psr' = psr /\ memory' = memory]_vars

\* C14 as the code has it: HALT is a trap, so R7 takes the address after the
\* instruction; R0..R6, the condition code and every memory cell keep their
\* values.
C14_HaltSetsOnlyR7 ==
    [][TrapNext(HALT) =>
          /\ \A r \in 0 .. 6 : reg'[r] = reg[r]
          /\ reg'[7] = (pc + 1) % WordMod
          /\ psr' = psr
          /\ memory' = memory]_vars

C14_Witness ==
    /\ status = "Halted"
    /\ IsHalt(inst)
    /\ at = MainPc + 1
    /\ reg[0] = 65535
    /\ reg[7] = MainPc + 2
    /\ psr = FlagNeg

\* the values a read of address a can deliver to an instruction
ReadValues(a) ==
    IF a = KBSR THEN {0, KbReady}
    ELSE IF a = KBDR THEN {0} \cup (IF stdin = <<>> THEN {} ELSE {Head(stdin)})
    ELSE IF a = DSR THEN {KbReady}
    ELSE IF a = DDR THEN {0}
    ELSE IF a < MemSize THEN {Cell(memory, a)}
    ELSE {}

\* base register + sign-extend(offset, 6), mod 2^16
BaseRel(w) == (reg[Sr1Of(w)] + TwosComplement(w, 6)) % WordMod

\* the addresses the load or store about to execute can access for its data
DataAddrs(w) ==
    IF OpOf(w) \in {OpLd, OpSt} THEN {PcRel(w, 9)}
    ELSE IF OpOf(w) \in {OpLdr, OpStr} THEN {BaseRel(w)}
    ELSE IF OpOf(w) \in {OpLdi, OpSti} THEN ReadValues(PcRel(w, 9))
    ELSE {}

\* C15: device addresses are intercepted before backing storage on every
\* access made by an instruction: a store (St, Sti, Str) to KBSR, KBDR or DSR
\* changes no memory cell and emits no output; a store to DDR emits exactly
\* one byte, the low 8 bits of the stored value, followed by a flush, and
\* changes no memory cell; a load from DSR always yields the ready value and
\* from DDR always yields 0, whatever the backing cell holds.
C15_DevicesIntercepted ==
    [][(status = "Running" /\ NextWord # -1) =>
          \A ea \in DataAddrs(NextWord) :
             /\ (OpOf(NextWord) \in {OpSt, OpSti, OpStr}
                   /\ ea \in {KBSR, KBDR, DSR}) =>
                   /\ Completes
                   /\ memory' = memory /\ out' = out /\ flushes' = flushes
             /\ (OpOf(NextWord) \in {OpSt, OpSti, OpStr} /\ ea = DDR
                   /\ stdoutOk) =>
                   /\ Completes
                   /\ memory' = memory
                   /\ out' = Append(out, reg[DrOf(NextWord)] % 256)
                   /\ flushes' = flushes + 1
             /\ (OpOf(NextWord) \in {OpLd, OpLdi, OpLdr} /\ ea = DSR) =>
                   Completes /\ reg'[DrOf(NextWord)] = 128
             /\ (OpOf(NextWord) \in {OpLd, OpLdi, OpLdr} /\ ea = DDR) =>
                   Completes /\ reg'[DrOf(NextWord)] = 0]_vars

C15_Witness ==
    /\ status = "Running"
    /\ inst = 8706
    /\ at = KBSR + 1
    /\ executed = 1
    /\ reg[1] = 128
    /\ Cell(memory, DSR) = 4660

\* C16: after a Jsr fetched at address a, R7 = a+1 (mod 2^16), and pc =
\* a+1+sign-extend(offset, 11) (mod 2^16) when bit 11 is set, else the value
\* register br held before the instruction, for every br including R7;
\* likewise after any Trap fetched at a, R7 = a+1.
C16_LinkRegister ==
    [][/\ OpNext(OpJsr) =>
             /\ Completes
             /\ reg'[7] = (pc + 1) % WordMod
             /\ pc' = IF Bit(NextWord, 11) = 1
                      THEN (pc + 1 + TwosComplement(NextWord, 11)) % WordMod
                      ELSE reg[Sr1Of(NextWord)]
       /\ OpNext(OpTrap) => reg'[7] = (pc + 1) % WordMod]_vars

C16_Witness ==
    /\ status = "Running"
    /\ inst = 16832
    /\ at = MainPc + 1
    /\ executed = 2
    /\ pc = MainPc + 1
    /\ reg[7] = MainPc + 2

\* the second operand of an Add or And word: sign-extend(imm5, 5) when bit 5
\* is set, else the value of register sr2
Operand(w) ==
    IF Bit(w, 5) = 1 THEN TwosComplement(w, 5) ELSE reg[Sr2Of(w)]

\* r is the bitwise and of the words a and b
IsAnd(r, a, b) ==
    /\ r \in Word
    /\ \A i \in 0 .. 15 : Bit(r, i) = Bit(a, i) * Bit(b, i)

\* C17: for every Add or And word and every register state, dr receives
\* (sr1 op operand) mod 2^16, the operand being sign-extend(imm5, 5) when bit
\* 5 is set and register sr2 when it is clear; overflow wraps and never
\* faults, and the result is the same when dr coincides with sr1 or sr2.
C17_AddAnd ==
    [][/\ OpNext(OpAdd) =>
             /\ Completes /\ status' = "Running"
             /\ reg'[DrOf(NextWord)] =
                   (reg[Sr1Of(NextWord)] + Operand(NextWord)) % WordMod
       /\ OpNext(OpAnd) =>
             /\ Completes /\ status' = "Running"
             /\ IsAnd(reg'[DrOf(NextWord)], reg[Sr1Of(NextWord)],
                      Operand(NextWord))]_vars

C17_Witness ==
    /\ status = "Running"
    /\ inst = 4096
    /\ at = MainPc + 1
    /\ executed = 2
    /\ reg[0] = 65534

\* the condition mask m of a Br word and the condition code c have a flag in
\* common
MaskMatches(w) == \E i \in 0 .. 2 : Bit(DrOf(w), i) = 1 /\ Bit(psr, i) = 1

\* C18: for a Br fetched at address a with condition mask m (bits 11:9) and
\* condition code c, the next pc is a+1+sign-extend(offset, 9) (mod 2^16) if
\* and only if m AND c is non-zero, and a+1 otherwise; consequently a Br with
\* mask 111 is taken in every reachable state and a Br with mask 000 never.
C18_Branch ==
    [][OpNext(OpBr) =>
          /\ Completes
          /\ pc' = IF MaskMatches(NextWord)
                   THEN PcRel(NextWord, 9) ELSE (pc + 1) % WordMod
          /\ DrOf(NextWord) = 7 => pc' = PcRel(NextWord, 9)
          /\ DrOf(NextWord) = 0 => pc' = (pc + 1) % WordMod]_vars

\* C19: a failure of the input or output collaborator is never propagated as
\* a fault: a character read (GETC, IN, keyboard-data read) that cannot
\* produce a byte, read error and end of input included, completes yielding 0
\* and execution continues, and a failed output write does not abort the run.
C19_IoFailureNotPropagated ==
    [][status = "Running" =>
          /\ fault' \notin {"Getch", "Stdout"}
          /\ (OpNext(OpTrap) /\ VecOf(NextWord) = GETC /\ stdin = <<>>) =>
                Completes /\ reg'[0] = 0]_vars

\* memory after the step is memory before it with cell ea holding v
OneCellStored(ea, v) ==
    \A a \in DOMAIN memory \cup DOMAIN memory' \cup {ea} :
        Cell(memory', a) = IF a = ea THEN v ELSE Cell(memory, a)

\* C20: the address space is changed only by store instructions: after
\* read_image, an executed instruction changes a memory cell only if it is
\* St, Sti or Str targeting a non-device address, it then changes exactly the
\* one addressed cell to the value of sr, and every other instruction leaves
\* every cell unchanged.
C20_OnlyStoresChangeMemory ==
    [][status = "Running" =>
          IF NextWord # -1 /\ OpOf(NextWord) \in {OpSt, OpSti, OpStr}
          THEN IF Completes
               THEN \E ea \in DataAddrs(NextWord) :
                       IF ea \in DeviceAddrs THEN memory' = memory
                       ELSE OneCellStored(ea, reg[DrOf(NextWord)])
               ELSE memory' = memory
          ELSE memory' = memory]_vars

C20_Witness ==
    /\ status = "Running"
    /\ inst = 12289
    /\ at = MainPc + 1
    /\ executed = 2
    /\ reg[0] = 65535
    /\ Cell(memory, MainPc + 3) = 65535
    /\ Cell(memory, MainPc + 2) = 18760

=============================================================================
